---- MODULE Spec2Model ----
(***************************************************************************)
(* A model of pdf-mcp (src/main.py): the resource catalog built at         *)
(* startup, the debug_page tool, and the page dumper / value normalizer /  *)
(* stream renderer it calls.                                               *)
(*                                                                         *)
(* Parsed PDF values are tagged records, one tag per runtime shape that    *)
(* dump_obj dispatches on:                                                 *)
(*   [tag |-> "null"]                      None                            *)
(*   [tag |-> "dict",  m |-> f]            dict, f a function on its keys  *)
(*   [tag |-> "list",  items |-> seq]      list                            *)
(*   [tag |-> "str",   s |-> codes]        str, a sequence of code points  *)
(*   [tag |-> "bytes", b |-> octets]       bytes, a sequence of 0..255     *)
(*   [tag |-> "stream", objid, filters, rawdata, decoded]    PDFStream     *)
(*   [tag |-> "ref",   objid |-> n]        PDFObjRef                       *)
(*   [tag |-> "other", n |-> i]            anything else (here: an int)    *)
(* A raised exception is the value [tag |-> "raise", kind |-> ...]; it     *)
(* propagates through every caller, as an exception does.                  *)
(***************************************************************************)
EXTENDS Integers, Sequences, FiniteSets, TLC

VARIABLES
    stm, rec,                 \* dump_stream: its argument, what it gave
    obj, out,                 \* dump_obj: its argument, what it gave
    data, pagenum, result,    \* dump_page: its arguments, what it gave
    dirExists, dirFiles,      \* the file system under the configured datadir
    phase, catalog,           \* the server process and mcp's resource table
    pc, args, outcome         \* per request: position, (uri, page), response

vars == <<stm, rec, obj, out, data, pagenum, result,
          dirExists, dirFiles, phase, catalog, pc, args, outcome>>

(***************************************************************************)
(* Bounds of the model.                                                    *)
(***************************************************************************)
MaxFilters == 2      \* longest filter list of a stream
MaxDepth == 2        \* deepest nesting of the values given to dump_obj
MaxPages == 2        \* most pages of a document

(***************************************************************************)
(* Values.                                                                 *)
(***************************************************************************)
None == [tag |-> "null"]
Str(s) == [tag |-> "str", s |-> s]
Bytes(b) == [tag |-> "bytes", b |-> b]
List(items) == [tag |-> "list", items |-> items]
Dict(m) == [tag |-> "dict", m |-> m]
Ref(n) == [tag |-> "ref", objid |-> n]
Other(n) == [tag |-> "other", n |-> n]
Stream(objid, filters, rawdata, decoded) ==
    [tag |-> "stream", objid |-> objid, filters |-> filters,
     rawdata |-> rawdata, decoded |-> decoded]
Raise(kind) == [tag |-> "raise", kind |-> kind]
NoResult == [tag |-> "pending"]

EmptyMap == [k \in {} |-> None]
Dict1(k, v) == Dict(k :> v)
Dict2(k, v, j, w) == Dict((k :> v) @@ (j :> w))

IsRaise(v) == v.tag = "raise"

(***************************************************************************)
(* base64.b64encode(b).decode("ascii"): three octets give four characters  *)
(* of the alphabet A-Z a-z 0-9 + /, the last group padded with "=".        *)
(***************************************************************************)
B64Char(i) ==
    IF i < 26 THEN 65 + i
    ELSE IF i < 52 THEN 97 + (i - 26)
    ELSE IF i < 62 THEN 48 + (i - 52)
    ELSE IF i = 62 THEN 43 ELSE 47

RECURSIVE b64encode(_)
b64encode(b) ==
    IF Len(b) = 0 THEN <<>>
    ELSE IF Len(b) = 1 THEN
        LET n == b[1] * 65536
        IN  <<B64Char(n \div 262144), B64Char((n \div 4096) % 64), 61, 61>>
    ELSE IF Len(b) = 2 THEN
        LET n == b[1] * 65536 + b[2] * 256
        IN  <<B64Char(n \div 262144), B64Char((n \div 4096) % 64),
              B64Char((n \div 64) % 64), 61>>
    ELSE
        LET n == b[1] * 65536 + b[2] * 256 + b[3]
        IN  <<B64Char(n \div 262144), B64Char((n \div 4096) % 64),
              B64Char((n \div 64) % 64), B64Char(n % 64)>>
            \o b64encode(SubSeq(b, 4, Len(b)))

\* bytes.decode("ascii"): the same code points, or UnicodeDecodeError when an
\* octet is not ASCII.
decode_ascii(b) ==
    IF \A i \in 1..Len(b) : b[i] < 128 THEN Str(b) ELSE Raise("DecodeError")

\* repr(obj) of the fallback branch, for a non-negative int: its decimal digits.
RECURSIVE repr(_)
repr(n) == IF n < 10 THEN <<48 + n>> ELSE repr(n \div 10) \o <<48 + (n % 10)>>

(***************************************************************************)
(* The parsing collaborator (pdfminer), as main.py uses it.                *)
(***************************************************************************)
FlateDecode == "FlateDecode"
Fl == "Fl"
DCTDecode == "DCTDecode"
LITERALS_FLATE_DECODE == {FlateDecode, Fl}

\* stream.get_filters(): the (filter, params) pairs of the stream.
get_filters(stream) == stream.filters

\* stream.get_data(): the stream's octets with every filter applied (the raw
\* octets when there is none), or a failure of the decoder.  What the decoder
\* gives is an attribute of the parsed stream, as stream.rawdata is: main.py
\* reads both from the collaborator, in whatever order the filter list has.
get_data(stream) ==
    IF stream.filters = <<>> THEN Bytes(stream.rawdata) ELSE stream.decoded

\* f"{stream.objid} 0 obj"
ObjKey(objid) == ToString(objid) \o " 0 obj"

(***************************************************************************)
(* dump_stream (src/main.py:88-100).                                       *)
(***************************************************************************)
\* result[key] = value, on a dict value.
SetItem(d, k, v) ==
    Dict([j \in DOMAIN d.m \cup {k} |-> IF j = k THEN v ELSE d.m[j]])

\* The text of `stream.get_data().decode("ascii")`, or what it raises.
DecodedText(stream) ==
    LET d == get_data(stream)
    IN  IF IsRaise(d) THEN d ELSE decode_ascii(d.b)

\* One iteration of `for f, params in filters` on the dict `result0`; an
\* exception raised by an earlier iteration has ended the loop.
FilterStep(stream, result0, pair) ==
    IF IsRaise(result0) THEN result0
    ELSE IF pair.f \in LITERALS_FLATE_DECODE THEN
        LET t == DecodedText(stream)
        IN  IF IsRaise(t) THEN t ELSE SetItem(result0, "stream", t)
    ELSE
        SetItem(SetItem(result0, "params", pair.params), "stream",
                Str(b64encode(stream.rawdata)))

RECURSIVE FilterLoop(_, _, _)
FilterLoop(stream, result0, filters) ==
    IF filters = <<>> THEN result0
    ELSE FilterLoop(stream, FilterStep(stream, result0, Head(filters)),
                    Tail(filters))

\* `else: result["stream"] = stream.get_data().decode("ascii")`
DumpUnfiltered(stream) ==
    LET t == DecodedText(stream)
    IN  IF IsRaise(t) THEN t ELSE SetItem(Dict(EmptyMap), "stream", t)

dump_stream(stream) ==
    LET filters == get_filters(stream)
        result0 ==
            IF filters # <<>> THEN FilterLoop(stream, Dict(EmptyMap), filters)
            ELSE DumpUnfiltered(stream)
    IN  IF IsRaise(result0) THEN result0
        ELSE Dict1(ObjKey(stream.objid), result0)

(***************************************************************************)
(* The document's object table, and resolve1.                              *)
(***************************************************************************)
Blob == <<255, 0>>
TextBT == <<66, 84>>
PlainStream == Stream(7, <<>>, TextBT, Bytes(TextBT))
FlateStream ==
    Stream(8, <<[f |-> FlateDecode, params |-> Dict(EmptyMap)]>>,
           <<120, 156>>, Bytes(<<69, 84>>))
BinaryStream == Stream(9, <<>>, <<255>>, Bytes(<<255>>))
ImageStream ==
    Stream(10, <<[f |-> DCTDecode, params |-> Dict1("K", Bytes(Blob))]>>,
           <<255, 216>>, Bytes(<<255, 216>>))

Objects ==
    (1 :> Bytes(Blob)) @@ (2 :> Ref(1)) @@ (3 :> List(<<Ref(2), Str(TextBT)>>))
    @@ (7 :> PlainStream) @@ (8 :> FlateStream) @@ (9 :> BinaryStream)
    @@ (10 :> ImageStream)

\* PDFObjRef.resolve(): the object of that id, None when the table has none.
GetObj(objid) == IF objid \in DOMAIN Objects THEN Objects[objid] ELSE None

\* resolve1(x): follows references until the value is not one.
RECURSIVE resolve1(_)
resolve1(x) == IF x.tag = "ref" THEN resolve1(GetObj(x.objid)) ELSE x

(***************************************************************************)
(* dump_obj (src/main.py:70-85).                                           *)
(***************************************************************************)
\* `obj is None` read as "obj is falsy": None, and every empty value.
IsFalsy(v) ==
    \/ v.tag = "null"
    \/ v.tag = "dict" /\ DOMAIN v.m = {}
    \/ v.tag = "list" /\ v.items = <<>>
    \/ v.tag = "str" /\ v.s = <<>>
    \/ v.tag = "bytes" /\ v.b = <<>>

\* `obj is None`
IsNone(v) == v.tag = "null"

\* The first raised exception among the results of a comprehension, if any.
FirstRaise(S) == IF \E v \in S : IsRaise(v) THEN CHOOSE v \in S : IsRaise(v) ELSE None

RECURSIVE dump_obj(_)

\* The PDFObjRef branch missing: a reference falls through to repr(obj).
dump_ref_unresolved(v) == Str(<<60>> \o repr(v.objid) \o <<62>>)

\* `return dump_obj(resolve1(obj))`
dump_ref(v) == dump_obj(resolve1(v))

dump_obj(v) ==
    IF IsNone(v) THEN None
    ELSE IF v.tag = "dict" THEN
        LET m == [k \in DOMAIN v.m |-> dump_obj(v.m[k])]
            vals == {m[k] : k \in DOMAIN m}
        IN  IF \E x \in vals : IsRaise(x) THEN FirstRaise(vals) ELSE Dict(m)
    ELSE IF v.tag = "list" THEN
        LET items == [i \in 1..Len(v.items) |-> dump_obj(v.items[i])]
            vals == {items[i] : i \in 1..Len(items)}
        IN  IF \E x \in vals : IsRaise(x) THEN FirstRaise(vals) ELSE List(items)
    ELSE IF v.tag = "str" THEN v
    ELSE IF v.tag = "bytes" THEN Str(b64encode(v.b))
    ELSE IF v.tag = "stream" THEN dump_stream(v)
    ELSE IF v.tag = "ref" THEN dump_ref(v)
    ELSE Str(repr(v.n))

(***************************************************************************)
(* dump_page (src/main.py:50-67).  A document is [ok, pages]: whether the  *)
(* parser accepts the bytes, and its pages in order; a page is [contents,  *)
(* resources], a list of values and a dict held as a function.  What       *)
(* dump_page gives is [value, visited]: the value returned or the          *)
(* exception raised, and the pages the loop took from the page generator.  *)
(***************************************************************************)
\* `contents = dump_obj(obj)` keeping the first entry's result instead.
ContentsStepFirst(contents0, o) ==
    IF contents0 = Dict(EmptyMap) THEN dump_obj(o) ELSE contents0

\* `contents = dump_obj(obj)`: one iteration of `for obj in page.contents`.
ContentsStep(contents0, o) == dump_obj(o)

RECURSIVE ContentsLoop(_, _)
ContentsLoop(contents0, objs) ==
    IF objs = <<>> THEN contents0
    ELSE LET c == ContentsStep(contents0, Head(objs))
         IN  IF IsRaise(c) THEN c ELSE ContentsLoop(c, Tail(objs))

\* `for k, v in page.resources.items(): resources[str(k)] = dump_obj(v)`;
\* the keys of a parsed dict are str already, which str(k) returns as they are.
ResourcesLoop(resources) ==
    LET m == [k \in DOMAIN resources |-> dump_obj(resources[k])]
        vals == {m[k] : k \in DOMAIN m}
    IN  IF \E x \in vals : IsRaise(x) THEN FirstRaise(vals) ELSE Dict(m)

\* The body of `if i + 1 == pagenum:`.
DumpMatched(page) ==
    LET contents == ContentsLoop(Dict(EmptyMap), page.contents)
    IN  IF IsRaise(contents) THEN contents
        ELSE LET resources == ResourcesLoop(page.resources)
             IN  IF IsRaise(resources) THEN resources
                 ELSE Dict2("contents", contents, "resources", resources)

\* The page test with the enumerate index taken as the page number.
PageMatchesZeroBased(i, n) == i = n

\* `if i + 1 == pagenum`
PageMatches(i, n) == i + 1 = n

\* The loop that scans every page and keeps the last match.
RECURSIVE PageLoopNoReturn(_, _, _, _, _)
PageLoopNoReturn(pages, i, n, visited, found) ==
    IF i >= Len(pages) THEN
        [value |-> IF found = NoResult
                   THEN Raise("ValueError: Page out of range") ELSE found,
         visited |-> visited]
    ELSE PageLoopNoReturn(pages, i + 1, n, visited \cup {i + 1},
                          IF PageMatches(i, n) THEN DumpMatched(pages[i + 1])
                          ELSE found)

PageLoopScanAll(pages, i, n, visited) ==
    PageLoopNoReturn(pages, i, n, visited, NoResult)

\* `for i, page in enumerate(pages)` from index i on, then the raise.
RECURSIVE PageLoop(_, _, _, _)
PageLoop(pages, i, n, visited) ==
    IF i >= Len(pages) THEN
        [value |-> Raise("ValueError: Page out of range"), visited |-> visited]
    ELSE IF PageMatches(i, n) THEN
        [value |-> DumpMatched(pages[i + 1]), visited |-> visited \cup {i + 1}]
    ELSE PageLoop(pages, i + 1, n, visited \cup {i + 1})

dump_page(doc, n) ==
    IF ~doc.ok THEN [value |-> Raise("ParseError"), visited |-> {}]
    ELSE PageLoop(doc.pages, 0, n, {})

(***************************************************************************)
(* The values the pure functions are applied to.                           *)
(***************************************************************************)
RECURSIVE SeqsUpTo(_, _)
SeqsUpTo(S, n) ==
    IF n = 0 THEN {<<>>}
    ELSE LET R == SeqsUpTo(S, n - 1)
         IN  R \cup {Append(q, x) : q \in R, x \in S}

FilterNames == {FlateDecode, Fl, DCTDecode}
ParamValues ==
    {Dict(EmptyMap), Dict1("Predictor", Other(12)), Dict1("K", Bytes(Blob))}
FilterPairs == [f : FilterNames, params : ParamValues]

\* (raw octets, what the decoder gives for them): ASCII left as it is, ASCII
\* deflated, binary deflated, corrupt.
Payloads ==
    {[raw |-> TextBT, decoded |-> Bytes(TextBT)],
     [raw |-> <<120, 156>>, decoded |-> Bytes(<<69, 84>>)],
     [raw |-> <<120, 156, 1>>, decoded |-> Bytes(<<255>>)],
     [raw |-> <<120>>, decoded |-> Raise("DecodeError")]}

Streams ==
    {Stream(7, fl, p.raw, p.decoded) :
        fl \in SeqsUpTo(FilterPairs, MaxFilters), p \in Payloads}

Atoms ==
    {None, Str(<<>>), Str(TextBT), Bytes(<<>>), Bytes(Blob), Other(12),
     Ref(1), Ref(2), Ref(3), Ref(7), Ref(99), Dict(EmptyMap), List(<<>>),
     PlainStream, FlateStream, BinaryStream, ImageStream}

RECURSIVE Values(_)
Values(d) ==
    IF d = 0 THEN Atoms
    ELSE LET V == Values(d - 1)
         IN  Atoms \cup {Dict1("k", v) : v \in V}
                   \cup {Dict2("k", v, "j", Bytes(Blob)) : v \in V}
                   \cup {List(<<v>>) : v \in V}
                   \cup {List(<<Str(TextBT), v>>) : v \in V}

(***************************************************************************)
(* SpecStream: dump_stream applied to one stream.                          *)
(***************************************************************************)
ServerIdle ==
    /\ dirExists = FALSE /\ dirFiles = {} /\ phase = "off" /\ catalog = {}
    /\ pc = <<>> /\ args = <<>> /\ outcome = <<>>

InitStream ==
    /\ stm \in Streams /\ rec = NoResult
    /\ obj = None /\ out = NoResult
    /\ data = None /\ pagenum = 0 /\ result = NoResult
    /\ ServerIdle

DumpStream ==
    /\ rec = NoResult
    /\ rec' = dump_stream(stm)
    /\ UNCHANGED <<stm, obj, out, data, pagenum, result,
                   dirExists, dirFiles, phase, catalog, pc, args, outcome>>

SpecStream == InitStream /\ [][DumpStream]_vars

(***************************************************************************)
(* SpecObj: dump_obj applied to one value.                                 *)
(***************************************************************************)
InitObj ==
    /\ obj \in Values(MaxDepth) /\ out = NoResult
    /\ stm = None /\ rec = NoResult
    /\ data = None /\ pagenum = 0 /\ result = NoResult
    /\ ServerIdle

DumpObj ==
    /\ out = NoResult
    /\ out' = dump_obj(obj)
    /\ UNCHANGED <<stm, rec, obj, data, pagenum, result,
                   dirExists, dirFiles, phase, catalog, pc, args, outcome>>

SpecObj == InitObj /\ [][DumpObj]_vars

(***************************************************************************)
(* Claims about dump_stream and dump_obj.                                  *)
(***************************************************************************)
Emitted(v) == v.tag \notin {"pending", "raise"}

LastPair(stream) == stream.filters[Len(stream.filters)]

\* C4: for a stream with a non-empty filter list, the record dump_stream emits
\* is the record it emits for the same stream with the last (filter, params)
\* pair alone: nothing written for an earlier pair remains in it.
C4_LastPairAlone ==
    (Emitted(rec) /\ stm.filters # <<>>)
        => rec = dump_stream([stm EXCEPT !.filters = <<LastPair(stm)>>])

\* The case of C4 that breaks: an unrecognized filter followed by a deflate
\* filter, emitted with the earlier pair's params beside the decoded text.
C4_StaleParams ==
    /\ Emitted(rec)
    /\ Len(stm.filters) = 2
    /\ stm.filters[1].f = DCTDecode
    /\ stm.filters[2].f = FlateDecode
    /\ rec = Dict1("7 0 obj",
                   Dict2("params", stm.filters[1].params, "stream", Str(<<69, 84>>)))

RECURSIVE Normalized(_)
Normalized(v) ==
    \/ v.tag \in {"null", "str"}
    \/ v.tag = "dict" /\ \A k \in DOMAIN v.m : Normalized(v.m[k])
    \/ v.tag = "list" /\ \A i \in 1..Len(v.items) : Normalized(v.items[i])

\* C5: whatever dump_obj returns is a Normalized Value at every depth: null,
\* mappings, sequences and text only, with no raw blob, stream, reference or
\* other parser value left, the params of a stream record included.
C5_OutputNormalized == Emitted(out) => Normalized(out)

\* The case of C5 that breaks: the params of an unrecognized filter are
\* returned as the parser gave them, here with a raw blob inside.
C5_RawParams ==
    /\ obj = ImageStream
    /\ out = Dict1("10 0 obj",
                   Dict2("params", Dict1("K", Bytes(Blob)),
                         "stream", Str(<<47, 57, 103, 61>>)))

\* C6: dump_obj is the identity on values built only from null, text,
\* mappings and sequences (empty ones included), and so idempotent wherever
\* its result is such a value.
C6_IdentityOnNormalized ==
    /\ (out # NoResult /\ Normalized(obj)) => out = obj
    /\ (Emitted(out) /\ Normalized(out)) => dump_obj(out) = out

C6_Witness ==
    /\ obj = Dict1("k", List(<<Str(TextBT), Dict(EmptyMap)>>))
    /\ out = obj

\* `v` with every reference, at any depth of its mappings and sequences,
\* replaced by the value it resolves to.
RECURSIVE Subst(_)
Subst(v) ==
    IF v.tag = "ref" THEN Subst(resolve1(v))
    ELSE IF v.tag = "dict" THEN Dict([k \in DOMAIN v.m |-> Subst(v.m[k])])
    ELSE IF v.tag = "list" THEN
        List([i \in 1..Len(v.items) |-> Subst(v.items[i])])
    ELSE v

\* C7: normalizing through a reference gives what normalizing its target in
\* place gives, at any depth; {k: ref} with ref resolving to the blob b gives
\* {k: base64(b)}.
C7_RefAsTarget ==
    out # NoResult =>
        /\ out = dump_obj(Subst(obj))
        /\ obj.tag = "ref" => out = dump_obj(resolve1(obj))
        /\ \A r \in {1, 2} :
              obj = Dict1("k", Ref(r)) => out = Dict1("k", Str(<<47, 119, 65, 61>>))

C7_Witness ==
    /\ obj = Dict1("k", List(<<Str(TextBT), Ref(2)>>))
    /\ out = Dict1("k", List(<<Str(TextBT), Str(b64encode(Blob))>>))

(***************************************************************************)
(* SpecPage: dump_page applied to one document and one page number.        *)
(***************************************************************************)
Page(contents, resources) == [contents |-> contents, resources |-> resources]

PgPlain == Page(<<Ref(7)>>, EmptyMap)
PgPlainQ == Page(<<Stream(11, <<>>, <<113>>, Bytes(<<113>>))>>, EmptyMap)
PgTwo ==
    Page(<<Ref(10), FlateStream>>,
         ("Font" :> Ref(3)) @@ ("ProcSet" :> List(<<Other(12)>>)))
PgBadContent == Page(<<BinaryStream, PlainStream>>, EmptyMap)
PgBadResource == Page(<<PlainStream>>, "XObject" :> Dict1("Im", BinaryStream))
PgImage == Page(<<>>, "XObject" :> Dict1("Im", ImageStream))

PageKinds == {PgPlain, PgPlainQ, PgTwo, PgBadContent, PgBadResource, PgImage}

Malformed == [ok |-> FALSE, pages |-> <<>>]
Docs == {[ok |-> TRUE, pages |-> ps] : ps \in SeqsUpTo(PageKinds, MaxPages)}
            \cup {Malformed}
PageNums == (0 - 1)..(MaxPages + 1)

InitPage ==
    /\ data \in Docs /\ pagenum \in PageNums /\ result = NoResult
    /\ stm = None /\ rec = NoResult
    /\ obj = None /\ out = NoResult
    /\ ServerIdle

DumpPage ==
    /\ result = NoResult
    /\ result' = dump_page(data, pagenum)
    /\ UNCHANGED <<stm, rec, obj, out, data, pagenum,
                   dirExists, dirFiles, phase, catalog, pc, args, outcome>>

SpecPage == InitPage /\ [][DumpPage]_vars

(***************************************************************************)
(* Claims about dump_page.                                                 *)
(***************************************************************************)
\* The page has exactly one content stream, unfiltered and ASCII, and no
\* resources.
PlainPage(page) ==
    /\ Len(page.contents) = 1
    /\ LET s == resolve1(page.contents[1])
       IN  /\ s.tag = "stream"
           /\ s.filters = <<>>
           /\ \A i \in 1..Len(s.rawdata) : s.rawdata[i] < 128
    /\ DOMAIN page.resources = {}

\* C1: when page p of an N-page document (1 <= p <= N) has one unfiltered
\* content stream of id I holding the ASCII text T and no resources,
\* dump_page(data, p) returns {"contents": {"I 0 obj": {"stream": T}},
\* "resources": {}} whatever the other pages hold, and takes no page after
\* the p-th from the page sequence.
C1_PlainPage ==
    (/\ result # NoResult
     /\ data.ok
     /\ pagenum \in 1..Len(data.pages)
     /\ PlainPage(data.pages[pagenum]))
        => LET s == resolve1(data.pages[pagenum].contents[1])
           IN  /\ result.value =
                     Dict2("contents",
                           Dict1(ToString(s.objid) \o " 0 obj",
                                 Dict1("stream", Str(s.rawdata))),
                           "resources", Dict(EmptyMap))
               /\ result.visited = 1..pagenum

C1_Witness ==
    /\ data = [ok |-> TRUE, pages |-> <<PgPlain, PgBadContent>>]
    /\ result # NoResult
    /\ pagenum = 1
    /\ result.value =
          Dict2("contents", Dict1("7 0 obj", Dict1("stream", Str(TextBT))),
                "resources", Dict(EmptyMap))
    /\ result.visited = {1}

\* C2: for a document the parser accepts, with N pages, a page number p <= 0
\* or p > N makes dump_page raise "Page out of range" and return nothing;
\* N = 0 and negative p included.
C2_OutOfRange ==
    (/\ result # NoResult
     /\ data.ok
     /\ (pagenum <= 0 \/ pagenum > Len(data.pages)))
        => result.value = Raise("ValueError: Page out of range")

C2_Witness ==
    /\ data = [ok |-> TRUE, pages |-> <<PgPlain>>]
    /\ result # NoResult
    /\ pagenum = 0
    /\ result.value = Raise("ValueError: Page out of range")

\* C3: when dump_page returns for a page with at least one content stream,
\* `contents` is dump_obj of the last entry of the list alone: a single
\* value, with nothing of an earlier entry in it.
C3_LastContentWins ==
    (/\ result # NoResult
     /\ Emitted(result.value)
     /\ data.pages[pagenum].contents # <<>>)
        => LET cs == data.pages[pagenum].contents
           IN  result.value.m["contents"] = dump_obj(cs[Len(cs)])

C3_Witness ==
    /\ data = [ok |-> TRUE, pages |-> <<PgTwo>>]
    /\ result # NoResult
    /\ pagenum = 1
    /\ result.value.tag = "dict"
    /\ result.value.m["contents"] =
          Dict1("8 0 obj", Dict1("stream", Str(<<69, 84>>)))

(***************************************************************************)
(* Spec: the server.  main() fills the catalog from the data directory and *)
(* starts serving; each debug_page request runs up to its one await (the   *)
(* read of the resource) and, resumed, to its end.                         *)
(***************************************************************************)
Reqs == {"r1", "r2"}

File(stem, ext, doc) == [stem |-> stem, ext |-> ext, doc |-> doc]

ServerDocs ==
    {[ok |-> TRUE, pages |-> <<PgPlain, PgBadResource>>],
     [ok |-> TRUE, pages |-> <<PgImage>>],
     [ok |-> TRUE, pages |-> <<>>],
     Malformed}

Files ==
    {File("a", "pdf", d) : d \in ServerDocs}
        \cup {File("b", "pdf", [ok |-> TRUE, pages |-> <<PgTwo, PgBadContent>>]),
              File("notes", "txt", Malformed)}

\* The listings a directory can have: one file per name.
Listings ==
    {S \in SUBSET Files :
        \A f, g \in S : (f.stem = g.stem /\ f.ext = g.ext) => f = g}

Uris == {"pdf://a", "pdf://b", "pdf://zz"}

NoArgs == [uri |-> "", page |-> 0]

Init ==
    /\ dirExists \in BOOLEAN
    /\ dirFiles \in Listings
    /\ ~dirExists => dirFiles = {}
    /\ phase = "start"
    /\ catalog = {}
    /\ pc = [r \in Reqs |-> "idle"]
    /\ args = [r \in Reqs |-> NoArgs]
    /\ outcome = [r \in Reqs |-> NoResult]
    /\ stm = None /\ rec = NoResult
    /\ obj = None /\ out = NoResult
    /\ data = None /\ pagenum = 0 /\ result = NoResult

\* datadir.glob("*.pdf"): the entries of the directory whose name ends in
\* .pdf; of a directory that does not exist, none, and no error.
Glob(exists, files) == IF exists THEN {f \in files : f.ext = "pdf"} ELSE {}

\* find_resources: one FileResource per path of the glob.
find_resources(exists, files) ==
    {[uri |-> "pdf://" \o f.stem,
      path |-> [stem |-> f.stem, ext |-> f.ext],
      mime_type |-> "application/pdf"] : f \in Glob(exists, files)}

\* main(): find_resources(datadir), then mcp.run().
Main ==
    /\ phase = "start"
    /\ catalog' = find_resources(dirExists, dirFiles)
    /\ phase' = "serving"
    /\ UNCHANGED <<stm, rec, obj, out, data, pagenum, result,
                   dirExists, dirFiles, pc, args, outcome>>

\* debug_page(uri, page, ctx) up to `await ctx.read_resource(uri)`.
Call(r, uri, page) ==
    /\ phase = "serving"
    /\ pc[r] = "idle"
    /\ pc' = [pc EXCEPT ![r] = "reading"]
    /\ args' = [args EXCEPT ![r] = [uri |-> uri, page |-> page]]
    /\ UNCHANGED <<stm, rec, obj, out, data, pagenum, result,
                   dirExists, dirFiles, phase, catalog, outcome>>

\* ctx.read_resource(uri): the contents of the cataloged resource of that
\* uri, read from its file; none when the catalog has no such resource.
read_resource(cat, files, uri) ==
    LET entries == {e \in cat : e.uri = uri}
    IN  IF entries = {} THEN <<>>
        ELSE LET e == CHOOSE e \in entries : TRUE
                 f == CHOOSE f \in files :
                         f.stem = e.path.stem /\ f.ext = e.path.ext
             IN  <<[content |-> f.doc]>>

\* The uri read from a slot that the requests in flight share: a resumed
\* request finds there the uri of whichever call is still waiting.
RequestUriShared(r) == args[CHOOSE q \in Reqs : pc[q] = "reading"].uri

\* The uri of request r (its own argument).
RequestUri(r) == args[r].uri

\* debug_page from the await to its end.
debug_page(r) ==
    LET resource == read_resource(catalog, dirFiles, RequestUri(r))
    IN  IF resource = <<>> THEN Raise("FileNotFoundError")
        ELSE dump_page(resource[1].content, args[r].page).value

Resume(r) ==
    /\ pc[r] = "reading"
    /\ outcome' = [outcome EXCEPT ![r] = debug_page(r)]
    /\ pc' = [pc EXCEPT ![r] = "done"]
    /\ UNCHANGED <<stm, rec, obj, out, data, pagenum, result,
                   dirExists, dirFiles, phase, catalog, args>>

\* The response is delivered; the serving layer may dispatch the next call.
Return(r) ==
    /\ pc[r] = "done"
    /\ pc' = [pc EXCEPT ![r] = "idle"]
    /\ args' = [args EXCEPT ![r] = NoArgs]
    /\ outcome' = [outcome EXCEPT ![r] = NoResult]
    /\ UNCHANGED <<stm, rec, obj, out, data, pagenum, result,
                   dirExists, dirFiles, phase, catalog>>

Next ==
    \/ Main
    \/ \E r \in Reqs, uri \in Uris, page \in PageNums : Call(r, uri, page)
    \/ \E r \in Reqs : Resume(r)
    \/ \E r \in Reqs : Return(r)

Spec == Init /\ [][Next]_vars

(***************************************************************************)
(* Claims about the server.                                                *)
(***************************************************************************)
ErrorOutcomes ==
    {Raise("FileNotFoundError"), Raise("ParseError"),
     Raise("ValueError: Page out of range"), Raise("DecodeError")}

\* A success: both fields, nothing else, every resource of the page present.
WholeResult(o, r) ==
    /\ o.tag = "dict"
    /\ DOMAIN o.m = {"contents", "resources"}
    /\ o.m["resources"].tag = "dict"
    /\ LET resource == read_resource(catalog, dirFiles, args[r].uri)
       IN  DOMAIN o.m["resources"].m =
               DOMAIN resource[1].content.pages[args[r].page].resources

\* C8: a finished debug_page request carries either an error and no result,
\* or a success with both `contents` and `resources`, each fully normalized;
\* never a part of a result.
C8_AllOrNothing ==
    \A r \in Reqs :
        pc[r] = "done" =>
            \/ outcome[r] \in ErrorOutcomes
            \/ /\ WholeResult(outcome[r], r)
               /\ Normalized(outcome[r].m["contents"])
               /\ Normalized(outcome[r].m["resources"])

\* The case of C8 that breaks: a success whose resources hold the raw params
\* of an unrecognized filter (the fault of C5).
C8_RawParamsReturned ==
    \E r \in Reqs :
        /\ pc[r] = "done"
        /\ WholeResult(outcome[r], r)
        /\ ~Normalized(outcome[r].m["resources"])

\* What holds of C8 without the normalization: an error, or the whole result.
C8_NoPartialResult ==
    \A r \in Reqs :
        pc[r] = "done" =>
            \/ outcome[r] \in ErrorOutcomes
            \/ WholeResult(outcome[r], r)

\* C9: the server never serves when the configured directory does not exist
\* (startup ends in a fatal error instead); with an existing directory that
\* holds no PDF file it serves, with an empty catalog.
C9_MissingDirectoryFatal ==
    /\ phase = "serving" => dirExists
    /\ (phase = "serving" /\ dirExists /\ Glob(dirExists, dirFiles) = {})
          => catalog = {}

\* The case of C9 that breaks: serving, with an empty catalog, a directory
\* that does not exist.
C9_ServingMissingDirectory ==
    phase = "serving" /\ ~dirExists /\ catalog = {}

\* The outcome of debug_page(uri, page) run alone on the catalog.
AloneOutcome(uri, page) ==
    IF \E e \in catalog : e.uri = uri
    THEN LET e == CHOOSE e \in catalog : e.uri = uri
             f == CHOOSE f \in dirFiles :
                     f.stem = e.path.stem /\ f.ext = e.path.ext
         IN  dump_page(f.doc, page).value
    ELSE Raise("FileNotFoundError")

\* C10: under every interleaving of requests, the catalog does not change
\* once serving has begun, a request at its await can always go on whatever
\* the other requests are doing, and the outcome of a finished request is
\* that of the same (uri, page) run alone on the catalog.
C10_RequestsIndependent ==
    /\ [][phase = "serving" => catalog' = catalog]_vars
    /\ [](\A r \in Reqs :
            /\ pc[r] = "reading" => ENABLED Resume(r)
            /\ (phase = "serving" /\ pc[r] = "idle")
                  => ENABLED Call(r, "pdf://a", 1)
            /\ pc[r] = "done"
                  => outcome[r] = AloneOutcome(args[r].uri, args[r].page))

C10_Witness ==
    /\ pc["r1"] = "reading" /\ args["r1"] = [uri |-> "pdf://a", page |-> 1]
    /\ pc["r2"] = "done" /\ args["r2"] = [uri |-> "pdf://b", page |-> 1]
    /\ outcome["r2"].tag = "dict"

====
